---- MODULE Spec2Model ----
\* Verification model of the DGL tutorial notebooks (Graph_tutorial).
\*
\* Six state machines share this module:
\*   SpecNB  a kernel running the code cells of one notebook once each, in file
\*           order (name binding, failures, the one try/except of the repository);
\*   SpecLP  the data preparation of the link-prediction notebook (edge split,
\*           negative sampling, training graph);
\*   SpecMP  the graph-convolution modules of the message-passing notebook
\*           (SAGEConv, WeightedSAGEConv, the user-defined message/reduce functions).
\*   SpecTR  the training loops of all notebooks (FairSpecTR: the loop keeps running);
\*   SpecCopy  train of the message-passing notebook next to train of 1_introduction;
\*   SpecGC  the samplers, loaders and readout of the graph-classification notebook.
EXTENDS Integers, Sequences, FiniteSets, TLC

VARIABLES
  \* --- SpecNB: the kernel
  nb,       \* name of the notebook being run
  ci,       \* index of the cell being run (1-based, file order)
  si,       \* index of the next statement of that cell
  bound,    \* names bound in the kernel's global namespace
  defs,     \* user-defined functions/classes: name -> free global names of the body
  status,   \* "running", "done" (all cells ran) or "aborted" (a cell raised)
  err,      \* the exception that aborted the run, "none" otherwise
  handled,  \* failures caught by an except clause: set of [nb, line, exc]
  \* --- SpecLP: the names bound by the data-preparation cells
  lp_pc,      \* "start", "loaded", "split", "removed", or "raised"
  g,          \* the input graph: [num_nodes, u, v], u[k] -> v[k] the edge with ID k-1
  eids,       \* the permuted edge IDs
  test_size, train_size,
  test_pos, train_pos,   \* [u, v, eid]: endpoints of the positive examples, and
                         \* the slice of eids they were indexed with
  adj_neg,    \* the dense complement matrix, adj_neg[i][j]
  neg,        \* [u, v]: neg_u, neg_v, the candidate negative pairs
  neg_eids,   \* the sampled indices into neg_u / neg_v
  test_neg, train_neg,   \* [u, v]: endpoints of the negative examples
  train_g,    \* the training graph: [num_nodes, u, v, eid]
  \* --- SpecMP: one input and the results of the modules on it
  mp_pc,      \* which modules have run
  mg,         \* the input graph
  in_feat,    \* width of the node features
  h,          \* node features
  w,          \* edge weights
  linear1, linear2,   \* the linear layers of conv1 and conv2
  sage,       \* result of SAGEConv.forward
  wsage,      \* result of WeightedSAGEConv.forward
  udf,        \* result of update_all with the user-defined functions
  model,      \* result of Model.forward (SAGEConv layers)
  wmodel,     \* result of Model.forward (WeightedSAGEConv layers)
  \* --- SpecTR / SpecCopy: the training loops
  tr,         \* the run of a training loop
  ref,        \* the run of train of 1_introduction it is compared with
  \* --- SpecGC: the data loaders and the readout of graph classification
  gc          \* the names bound by the cells: loaders, iterator, minibatch, prediction

nbvars == << nb, ci, si, bound, defs, status, err, handled >>

lpvars == << lp_pc, g, eids, test_size, train_size, test_pos, train_pos, adj_neg,
             neg, neg_eids, test_neg, train_neg, train_g >>

mpvars == << mp_pc, mg, in_feat, h, w, linear1, linear2, sage, wsage, udf, model, wmodel >>

trvars == << tr, ref >>

gcvars == << gc >>

vars == << nbvars, lpvars, mpvars, trvars, gcvars >>

----------------------------------------------------------------------------
\* Statements of a code cell. reads: names loaded when the statement runs at
\* module level (builtins left out); binds: names it stores; body: for a
\* def/class, the free global names its body loads when it is called; imp/call:
\* the statement imports a module / calls into a library, and so may raise.
\* catches/hbinds/skip describe an enclosing try: the exception classes of its
\* except clauses, the names the handler binds, and how many later statements of
\* the try body are skipped when the handler runs.

Stmt(l, r, b) ==
  [line |-> l, reads |-> r, binds |-> b, isdef |-> FALSE, body |-> {},
   imp |-> FALSE, call |-> FALSE, catches |-> {}, hbinds |-> {}, skip |-> 0]

Call(l, r, b) == [Stmt(l, r, b) EXCEPT !.call = TRUE]

Imp(l, b) == [Stmt(l, {}, b) EXCEPT !.imp = TRUE]

Def(l, r, b, fr) == [Stmt(l, r, b) EXCEPT !.isdef = TRUE, !.body = fr]

InTry(s, c, hb, k) == [s EXCEPT !.catches = c, !.hbinds = hb, !.skip = k]

\* unnamed/part_000, lines 1-620: the code cells in file order, each the sequence of its
\* module-level statements.
NB_part_000 ==
  << << Imp(29, {"os"}),
        Stmt(31, {"os"}, {}),
        Imp(32, {"dgl"}),
        Imp(33, {"fn"}),
        Imp(34, {"torch"}),
        Imp(35, {"nn"}),
        Imp(36, {"F"}) >>,
     << Def(83, {"nn"}, {"SAGEConv"}, {"SAGEConv", "fn", "nn", "torch"}) >>,
     << Def(155, {"nn"}, {"Model"}, {"F", "Model", "SAGEConv"}) >>,
     << Stmt(193, {"g"}, {}) >>,
     << Stmt(213, {"g"}, {}) >>,
     << Stmt(233, {"g"}, {}) >>,
     << Imp(299, {"dgl"}),
        Call(301, {"dgl"}, {"dataset"}),
        Stmt(302, {"dataset"}, {"g"}),
        Def(305, {}, {"train"}, {"F", "torch"}),
        Call(352, {"Model", "dataset", "g"}, {"model"}),
        Call(353, {"g", "model", "train"}, {}) >>,
     << Def(383, {"nn"}, {"WeightedSAGEConv"}, {"WeightedSAGEConv", "fn", "nn", "torch"}) >>,
     << Def(486, {"nn"}, {"Model"}, {"F", "Model", "WeightedSAGEConv", "torch"}),
        Call(499, {"Model", "dataset", "g"}, {"model"}),
        Call(500, {"g", "model", "train"}, {}) >>,
     << Def(520, {}, {"u_mul_e_udf"}, {}) >>,
     << Def(546, {}, {"mean_udf"}, {}) >>,
     << >> >>

\* unnamed/part_001, lines 1-578: the code cells in file order, each the sequence of its
\* module-level statements.
NB_part_001 ==
  << << Imp(29, {"os"}),
        Stmt(31, {"os"}, {}),
        Imp(32, {"dgl"}),
        Imp(33, {"fn"}),
        Imp(34, {"torch"}),
        Imp(35, {"nn"}),
        Imp(36, {"F"}) >>,
     << Def(83, {"nn"}, {"SAGEConv"}, {"SAGEConv", "fn", "nn", "torch"}) >>,
     << Def(153, {"nn"}, {"GCNConv"}, {"GCNConv", "fn", "nn"}) >>,
     << Def(175, {"nn"}, {"Model"}, {"F", "Model", "SAGEConv"}) >>,
     << Imp(259, {"dgl"}),
        Call(261, {"dgl"}, {"dataset"}),
        Stmt(262, {"dataset"}, {"g"}),
        Def(265, {}, {"train"}, {"F", "torch"}),
        Call(312, {"Model", "dataset", "g"}, {"model"}),
        Call(313, {"g", "model", "train"}, {}) >>,
     << Def(343, {"nn"}, {"WeightedSAGEConv"}, {"WeightedSAGEConv", "fn", "nn", "torch"}) >>,
     << Def(446, {"nn"}, {"Model"}, {"F", "Model", "WeightedSAGEConv", "torch"}),
        Call(459, {"Model", "dataset", "g"}, {"model"}),
        Call(460, {"g", "model", "train"}, {}) >>,
     << Def(480, {}, {"u_mul_e_udf"}, {}) >>,
     << Def(506, {}, {"mean_udf"}, {}) >>,
     << >> >>

\* unnamed/part_002, lines 1-308: the code cells in file order, each the sequence of its
\* module-level statements.
NB_part_002 ==
  << << Imp(29, {"os"}),
        Stmt(31, {"os"}, {}),
        Imp(32, {"dgl"}),
        Imp(33, {"dgl"}),
        Imp(34, {"torch"}),
        Imp(35, {"nn"}),
        Imp(36, {"F"}) >>,
     << Call(63, {"dgl"}, {"dataset"}) >>,
     << Call(81, {"dataset"}, {}),
        Call(82, {"dataset"}, {}),
        Imp(85, {"GraphDataLoader"}) >>,
     << Imp(111, {"SubsetRandomSampler"}),
        Call(113, {"dataset"}, {"num_examples"}),
        Call(114, {"num_examples"}, {"num_train"}),
        Call(116, {"SubsetRandomSampler", "num_train", "torch"}, {"train_sampler"}),
        Call(117, {"SubsetRandomSampler", "num_examples", "num_train", "torch"}, {"test_sampler"}),
        Call(119, {"GraphDataLoader", "dataset", "train_sampler"}, {"train_dataloader"}),
        Call(122, {"GraphDataLoader", "dataset", "test_sampler"}, {"test_dataloader"}) >>,
     << Call(142, {"train_dataloader"}, {"it"}),
        Call(143, {"it"}, {"batch"}),
        Call(144, {"batch"}, {}) >>,
     << Stmt(166, {"batch"}, {"batched_graph", "labels"}),
        Call(167, {"batched_graph"}, {}),
        Call(171, {"batched_graph"}, {}),
        Call(177, {"batched_graph", "dgl"}, {"graphs"}),
        Call(178, {}, {}),
        Call(179, {"graphs"}, {}) >>,
     << Imp(205, {"GraphConv"}),
        Def(208, {"nn"}, {"GCN"}, {"F", "GCN", "GraphConv", "dgl"}) >>,
     << Call(240, {"GCN", "dataset"}, {"model"}),
        Call(241, {"model", "torch"}, {"optimizer"}),
        Call(243, {"F", "model", "optimizer", "train_dataloader"}, {"batched_graph", "epoch", "labels", "loss", "pred"}),
        Stmt(251, {}, {"num_correct"}),
        Stmt(252, {}, {"num_tests"}),
        Call(253, {"model", "num_correct", "num_tests", "test_dataloader"}, {"batched_graph", "labels", "num_correct", "num_tests", "pred"}),
        Call(258, {"num_correct", "num_tests"}, {}) >>,
     << >> >>

\* unnamed/part_003, lines 1-554: the code cells in file order, each the sequence of its
\* module-level statements.
NB_part_003 ==
  << << Imp(28, {"itertools"}),
        Imp(29, {"os"}),
        Stmt(31, {"os"}, {}),
        Imp(33, {"dgl"}),
        Imp(34, {"dgl"}),
        Imp(35, {"np"}),
        Imp(36, {"sp"}),
        Imp(37, {"torch"}),
        Imp(38, {"nn"}),
        Imp(39, {"F"}) >>,
     << Call(113, {"dgl"}, {"dataset"}),
        Stmt(114, {"dataset"}, {"g"}) >>,
     << Call(134, {"g"}, {"u", "v"}) >>,
     << Stmt(143, {"u"}, {}) >>,
     << Call(155, {"g"}, {"u", "v"}),
        Call(157, {"g", "np"}, {"eids"}),
        Call(158, {"eids", "np"}, {"eids"}),
        Call(159, {"eids"}, {"test_size"}),
        Call(160, {"g", "test_size"}, {"train_size"}),
        Stmt(161, {"eids", "test_size", "u", "v"}, {"test_pos_u", "test_pos_v"}),
        Stmt(162, {"eids", "test_size", "u", "v"}, {"train_pos_u", "train_pos_v"}),
        Call(165, {"np", "sp", "u", "v"}, {"adj"}),
        Call(166, {"adj", "g", "np"}, {"adj_neg"}),
        Call(167, {"adj_neg", "np"}, {"neg_u", "neg_v"}),
        Call(169, {"g", "neg_u", "np"}, {"neg_eids"}),
        Stmt(170, {"neg_eids", "neg_u", "neg_v", "test_size"}, {"test_neg_u", "test_neg_v"}),
        Stmt(174, {"neg_eids", "neg_u", "neg_v", "test_size"}, {"train_neg_u", "train_neg_v"}) >>,
     << Call(221, {"dgl", "eids", "g", "test_size"}, {"train_g"}) >>,
     << Imp(246, {"SAGEConv"}),
        Def(251, {"nn"}, {"GraphSAGE"}, {"F", "GraphSAGE", "SAGEConv"}) >>,
     << Call(313, {"dgl", "g", "train_pos_u", "train_pos_v"}, {"train_pos_g"}),
        Call(314, {"dgl", "g", "train_neg_u", "train_neg_v"}, {"train_neg_g"}),
        Call(316, {"dgl", "g", "test_pos_u", "test_pos_v"}, {"test_pos_g"}),
        Call(317, {"dgl", "g", "test_neg_u", "test_neg_v"}, {"test_neg_g"}) >>,
     << Imp(345, {"fn"}),
        Def(348, {"nn"}, {"DotPredictor"}, {"fn"}) >>,
     << Def(378, {"nn"}, {"MLPPredictor"}, {"F", "nn", "torch"}) >>,
     << Call(453, {"GraphSAGE", "train_g"}, {"model"}),
        Call(456, {"DotPredictor"}, {"pred"}),
        Def(459, {}, {"compute_loss"}, {"F", "torch"}),
        Def(467, {}, {"compute_auc"}, {"roc_auc_score", "torch"}) >>,
     << Call(498, {"itertools", "model", "pred", "torch"}, {"optimizer"}),
        Stmt(503, {}, {"all_logits"}),
        Call(504, {"compute_loss", "model", "optimizer", "pred", "train_g", "train_neg_g", "train_pos_g"}, {"e", "h", "loss", "neg_score", "pos_score"}),
        Imp(520, {"roc_auc_score"}),
        Call(522, {"compute_auc", "h", "pred", "test_neg_g", "test_pos_g", "torch"}, {"neg_score", "pos_score"}) >> >>

\* DGL_tutorial/4_link_predict.ipynb, lines 1-515: the code cells in file order, each the sequence of its
\* module-level statements.
NB_link_predict ==
  << << Imp(28, {"itertools"}),
        Imp(29, {"os"}),
        Stmt(31, {"os"}, {}),
        Imp(33, {"dgl"}),
        Imp(34, {"dgl"}),
        Imp(35, {"np"}),
        Imp(36, {"sp"}),
        Imp(37, {"torch"}),
        Imp(38, {"nn"}),
        Imp(39, {"F"}) >>,
     << Call(90, {"dgl"}, {"dataset"}),
        Stmt(91, {"dataset"}, {"g"}) >>,
     << Call(114, {"g"}, {"u", "v"}),
        Call(116, {"g", "np"}, {"eids"}),
        Call(117, {"eids", "np"}, {"eids"}),
        Call(118, {"eids"}, {"test_size"}),
        Call(119, {"g", "test_size"}, {"train_size"}),
        Stmt(120, {"eids", "test_size", "u", "v"}, {"test_pos_u", "test_pos_v"}),
        Stmt(121, {"eids", "test_size", "u", "v"}, {"train_pos_u", "train_pos_v"}),
        Call(124, {"np", "sp", "u", "v"}, {"adj"}),
        Call(125, {"adj", "g", "np"}, {"adj_neg"}),
        Call(126, {"adj_neg", "np"}, {"neg_u", "neg_v"}),
        Call(128, {"g", "neg_u", "np"}, {"neg_eids"}),
        Stmt(129, {"neg_eids", "neg_u", "neg_v", "test_size"}, {"test_neg_u", "test_neg_v"}),
        Stmt(133, {"neg_eids", "neg_u", "neg_v", "test_size"}, {"train_neg_u", "train_neg_v"}) >>,
     << Call(180, {"dgl", "eids", "g", "test_size"}, {"train_g"}) >>,
     << Imp(202, {"SAGEConv"}),
        Def(207, {"nn"}, {"GraphSAGE"}, {"F", "GraphSAGE", "SAGEConv"}) >>,
     << Call(253, {"dgl", "g", "train_pos_u", "train_pos_v"}, {"train_pos_g"}),
        Call(254, {"dgl", "g", "train_neg_u", "train_neg_v"}, {"train_neg_g"}),
        Call(256, {"dgl", "g", "test_pos_u", "test_pos_v"}, {"test_pos_g"}),
        Call(257, {"dgl", "g", "test_neg_u", "test_neg_v"}, {"test_neg_g"}) >>,
     << Imp(280, {"fn"}),
        Def(283, {"nn"}, {"DotPredictor"}, {"fn"}) >>,
     << Def(309, {"nn"}, {"MLPPredictor"}, {"F", "nn", "torch"}) >>,
     << Call(380, {"GraphSAGE", "train_g"}, {"model"}),
        Call(383, {"DotPredictor"}, {"pred"}),
        Def(386, {}, {"compute_loss"}, {"F", "torch"}),
        Def(394, {}, {"compute_auc"}, {"roc_auc_score", "torch"}) >>,
     << Call(452, {"itertools", "model", "pred", "torch"}, {"optimizer"}),
        Stmt(457, {}, {"all_logits"}),
        Call(458, {"compute_loss", "model", "optimizer", "pred", "train_g", "train_neg_g", "train_pos_g"}, {"e", "h", "loss", "neg_score", "pos_score"}),
        Imp(474, {"roc_auc_score"}),
        Call(476, {"compute_auc", "h", "pred", "test_neg_g", "test_pos_g", "torch"}, {"neg_score", "pos_score"}) >>,
     << >> >>

\* DGL_tutorial/4_link_predict.ipynb, lines 517-1008: the code cells in file order, each the sequence of its
\* module-level statements.
NB_introduction ==
  << << Imp(557, {"os"}),
        Stmt(559, {"os"}, {}),
        Imp(560, {"dgl"}),
        Imp(562, {"torch"}),
        Imp(563, {"nn"}),
        Imp(564, {"F"}) >>,
     << Call(610, {"dgl"}, {"dataset"}),
        Call(611, {"dataset"}, {}) >>,
     << Stmt(629, {"dataset"}, {"g"}) >>,
     << Call(649, {"g", "torch"}, {"edges"}),
        Stmt(650, {"edges"}, {}) >>,
     << Stmt(671, {"edges"}, {}) >>,
     << Call(718, {}, {}),
        Call(719, {"g"}, {}),
        Call(720, {}, {}),
        Call(721, {"g"}, {}) >>,
     << Call(743, {"g"}, {}),
        Call(744, {"g"}, {}),
        Call(745, {"g"}, {}),
        Call(746, {"g"}, {}),
        Call(747, {"g"}, {}) >>,
     << Imp(777, {"GraphConv"}),
        Def(780, {"nn"}, {"GCN"}, {"F", "GCN", "GraphConv"}),
        Call(793, {"GCN", "dataset", "g"}, {"model"}) >>,
     << Def(847, {}, {"train"}, {"F", "torch"}),
        Call(890, {"GCN", "dataset", "g"}, {"model"}),
        Call(891, {"g", "model", "train"}, {}) >>,
     << Call(943, {"g"}, {"g"}),
        Call(944, {"GCN", "dataset", "g"}, {"model"}),
        Call(945, {"g", "model", "train"}, {}) >>,
     << >> >>

\* DGL_tutorial/5_graph_classification.ipynb, lines 1-418: the code cells in file order, each the sequence of its
\* module-level statements.
NB_graph_classification ==
  << << Imp(29, {"os"}),
        Stmt(31, {"os"}, {}),
        Imp(32, {"dgl"}),
        Imp(33, {"dgl"}),
        Imp(34, {"torch"}),
        Imp(35, {"nn"}),
        Imp(36, {"F"}) >>,
     << Call(63, {"dgl"}, {"dataset"}) >>,
     << Stmt(83, {"dataset"}, {}) >>,
     << Call(110, {"dataset"}, {}),
        Call(111, {"dataset"}, {}),
        Imp(114, {"GraphDataLoader"}) >>,
     << Imp(140, {"SubsetRandomSampler"}),
        Call(142, {"dataset"}, {"num_examples"}),
        Call(143, {"num_examples"}, {"num_train"}),
        Call(145, {"SubsetRandomSampler", "num_train", "torch"}, {"train_sampler"}),
        Call(146, {"SubsetRandomSampler", "num_examples", "num_train", "torch"}, {"test_sampler"}),
        Call(148, {"GraphDataLoader", "dataset", "train_sampler"}, {"train_dataloader"}),
        Call(151, {"GraphDataLoader", "dataset", "test_sampler"}, {"test_dataloader"}) >>,
     << Call(181, {"train_dataloader"}, {"it"}),
        Call(182, {"it"}, {"batch"}),
        Call(183, {"batch"}, {}) >>,
     << Stmt(226, {"batch"}, {"batched_graph", "labels"}),
        Call(227, {"batched_graph"}, {}),
        Call(231, {"batched_graph"}, {}),
        Call(237, {"batched_graph", "dgl"}, {"graphs"}),
        Call(238, {}, {}),
        Call(239, {"graphs"}, {}) >>,
     << Imp(265, {"GraphConv"}),
        Imp(266, {"GINConv"}),
        Def(268, {"nn"}, {"GCN"}, {"F", "GCN", "GraphConv", "dgl"}),
        Def(281, {"nn"}, {"GIN"}, {"F", "GIN", "GINConv", "dgl", "nn"}) >>,
     << Imp(341, {"tqdm"}),
        Call(344, {"torch"}, {"device"}),
        Call(347, {"GIN", "dataset", "device"}, {"model"}),
        Call(349, {"model", "torch"}, {"optimizer"}),
        Call(351, {"F", "device", "model", "optimizer", "tqdm", "train_dataloader"}, {"batched_graph", "epoch", "labels", "loss", "pred"}),
        Stmt(360, {}, {"num_correct"}),
        Stmt(361, {}, {"num_tests"}),
        Call(362, {"device", "model", "num_correct", "num_tests", "test_dataloader"}, {"batched_graph", "labels", "num_correct", "num_tests", "pred"}),
        Call(368, {"num_correct", "num_tests"}, {}) >>,
     << >> >>

\* DGL_tutorial/8_graph_transformer.ipynb, lines 1-489: the code cells in file order, each the sequence of its
\* module-level statements.
NB_graph_transformer ==
  << << Imp(33, {"os"}),
        Imp(34, {"torch"}),
        Stmt(35, {"os", "torch"}, {}),
        Stmt(36, {"os"}, {}),
        InTry(Imp(45, {"dgl"}), {"ImportError"}, {"installed"}, 1),
        InTry(Stmt(46, {}, {"installed"}), {"ImportError"}, {"installed"}, 0),
        Call(49, {"installed"}, {}) >>,
     << Imp(87, {"dgl"}),
        Imp(88, {"dglnn"}),
        Imp(89, {"dglsp"}),
        Imp(90, {"torch"}),
        Imp(91, {"nn"}),
        Imp(92, {"F"}),
        Imp(93, {"optim"}),
        Imp(95, {"AsGraphPredDataset"}),
        Imp(96, {"GraphDataLoader"}),
        Imp(97, {"DglGraphPropPredDataset", "Evaluator", "collate_dgl"}),
        Imp(98, {"AtomEncoder"}),
        Imp(99, {"tqdm"}),
        Def(102, {"nn"}, {"SparseMHA"}, {"dglsp", "nn"}) >>,
     << Def(163, {"nn"}, {"GTLayer"}, {"F", "SparseMHA", "nn"}) >>,
     << Def(205, {"nn"}, {"GTModel"}, {"AtomEncoder", "GTLayer", "dglnn", "dglsp", "nn", "torch"}) >>,
     << Def(355, {"torch"}, {"evaluate"}, {"torch"}),
        Def(370, {}, {"train"}, {"GraphDataLoader", "collate_dgl", "evaluate", "nn", "optim"}),
        Call(416, {"torch"}, {"dev"}),
        Stmt(419, {}, {"pos_enc_size"}),
        Call(420, {"AsGraphPredDataset", "DglGraphPropPredDataset"}, {"dataset"}),
        Call(423, {"Evaluator"}, {"evaluator"}),
        Imp(426, {"random"}),
        Call(427, {"random"}, {}),
        Call(428, {"dataset"}, {"train_size"}),
        Call(429, {"dataset"}, {"val_size"}),
        Call(430, {"dataset"}, {"test_size"}),
        Call(431, {"dataset", "random", "torch", "train_size"}, {}),
        Call(434, {"dataset", "random", "torch", "val_size"}, {}),
        Call(437, {"dataset", "random", "test_size", "torch"}, {}),
        Call(442, {"dataset", "torch"}, {"indices"}),
        Call(443, {"dataset", "dgl", "indices", "pos_enc_size", "tqdm"}, {"_", "g", "idx"}),
        Stmt(448, {"dataset"}, {"out_size"}),
        Call(449, {"GTModel", "dev", "out_size", "pos_enc_size"}, {"model"}),
        Call(452, {"dataset", "dev", "evaluator", "model", "train"}, {}) >>,
     << >> >>

\* DGL_tutorial/8_graph_transformer.ipynb, lines 491-846: the code cells in file order, each the sequence of its
\* module-level statements.
NB_load_data ==
  << << Imp(581, {"urllib"}),
        Imp(583, {"pd"}),
        Call(585, {"urllib"}, {}),
        Call(588, {"urllib"}, {}),
        Call(593, {"pd"}, {"members"}),
        Call(594, {"members"}, {}),
        Call(596, {"pd"}, {"interactions"}),
        Call(597, {"interactions"}, {}) >>,
     << Imp(629, {"os"}),
        Stmt(631, {"os"}, {}),
        Imp(632, {"dgl"}),
        Imp(633, {"torch"}),
        Imp(634, {"DGLDataset"}),
        Def(637, {"DGLDataset"}, {"KarateClubDataset"}, {"dgl", "pd", "torch"}),
        Call(680, {"KarateClubDataset"}, {"dataset"}),
        Stmt(681, {"dataset"}, {"graph"}),
        Call(683, {"graph"}, {}) >>,
     << Call(734, {"urllib"}, {}),
        Call(737, {"urllib"}, {}),
        Call(741, {"pd"}, {"edges"}),
        Call(742, {"pd"}, {"properties"}),
        Call(744, {"edges"}, {}),
        Call(746, {"properties"}, {}),
        Def(749, {"DGLDataset"}, {"SyntheticDataset"}, {"dgl", "pd", "torch"}),
        Call(795, {"SyntheticDataset"}, {"dataset"}),
        Stmt(796, {"dataset"}, {"graph", "label"}),
        Call(797, {"graph", "label"}, {}) >>,
     << >> >>

----------------------------------------------------------------------------
\* The notebooks of the repository. Two files hold two notebooks each.
NotebookNames ==
  {"part_000", "part_001", "part_002", "part_003", "link_predict",
   "introduction", "graph_classification", "graph_transformer", "load_data"}

Cells(n) ==
  CASE n = "part_000" -> NB_part_000
    [] n = "part_001" -> NB_part_001
    [] n = "part_002" -> NB_part_002
    [] n = "part_003" -> NB_part_003
    [] n = "link_predict" -> NB_link_predict
    [] n = "introduction" -> NB_introduction
    [] n = "graph_classification" -> NB_graph_classification
    [] n = "graph_transformer" -> NB_graph_transformer
    [] n = "load_data" -> NB_load_data

\* Exceptions a statement can raise out of the libraries it uses.
LibraryFailures(s) ==
  IF s.imp THEN {"ImportError", "LibraryError"}
  ELSE IF s.call THEN {"LibraryError"}
  ELSE {}

\* Names a statement needs bound: the ones it loads itself and, through the
\* user-defined functions and classes it refers to, the free names of their
\* bodies (a class is taken to run its methods where it is instantiated).
Expand(S, d) == S \cup UNION { d[n] : n \in S \cap DOMAIN d }

RECURSIVE Closure(_, _)
Closure(S, d) ==
  LET T == Expand(S, d) IN IF T = S THEN S ELSE Closure(T, d)

Needed(s, d) == IF s.isdef THEN s.reads ELSE Closure(s.reads, d)

Catches_Any(s, e) == s.catches # {}

\* Does an except clause of the enclosing try (if any) catch exception e?
Catches(s, e) == e \in s.catches

\* Position after statement (c, i) of notebook n, skipping k further statements
\* of the same cell; cells without statements are passed over.
RECURSIVE NextCell(_, _)
NextCell(n, c) ==
  IF c > Len(Cells(n)) THEN c
  ELSE IF Len(Cells(n)[c]) > 0 THEN c
  ELSE NextCell(n, c + 1)

Advance(n, c, i, k) ==
  IF i + k < Len(Cells(n)[c]) THEN << c, i + k + 1 >>
  ELSE << NextCell(n, c + 1), 1 >>

Current == Cells(nb)[ci][si]

Running == status = "running" /\ ci <= Len(Cells(nb))

\* Bindings after statement s ran to its end.
BindNames(s) == bound \cup s.binds

DefsAfter(s) ==
  IF s.isdef
    THEN [n \in DOMAIN defs \cup s.binds |->
            IF n \in s.binds THEN s.body ELSE defs[n]]
    ELSE [n \in DOMAIN defs \ s.binds |-> defs[n]]

MoveTo(p) ==
  /\ ci' = p[1]
  /\ si' = p[2]
  /\ status' = IF p[1] > Len(Cells(nb)) THEN "done" ELSE "running"

\* A statement runs to its end.
ExecStmt ==
  /\ Running
  /\ Needed(Current, defs) \subseteq bound
  /\ bound' = BindNames(Current)
  /\ defs' = DefsAfter(Current)
  /\ MoveTo(Advance(nb, ci, si, 0))
  /\ UNCHANGED << nb, err, handled >>
  /\ UNCHANGED << lpvars, mpvars, trvars, gcvars >>

\* The exceptions the current statement can raise: NameError for an unbound
\* name, otherwise whatever the import or library call surfaces.
Raises ==
  IF Needed(Current, defs) \subseteq bound
    THEN LibraryFailures(Current)
    ELSE {"NameError"}

\* A statement raises and nothing catches it: the cell stops, and with it the run.
FailStmt ==
  /\ Running
  /\ \E e \in Raises :
       /\ ~Catches(Current, e)
       /\ err' = e
       /\ status' = "aborted"
  /\ UNCHANGED << nb, ci, si, bound, defs, handled >>
  /\ UNCHANGED << lpvars, mpvars, trvars, gcvars >>

\* A statement raises inside a try whose except clause matches: the handler
\* runs and the cell goes on after the try.
CatchStmt ==
  /\ Running
  /\ \E e \in Raises :
       /\ Catches(Current, e)
       /\ handled' = handled \cup {[nb |-> nb, line |-> Current.line, exc |-> e]}
  /\ bound' = bound \cup Current.hbinds
  /\ defs' = [n \in DOMAIN defs \ Current.hbinds |-> defs[n]]
  /\ MoveTo(Advance(nb, ci, si, Current.skip))
  /\ UNCHANGED << nb, err >>
  /\ UNCHANGED << lpvars, mpvars, trvars, gcvars >>

InitNB ==
  /\ nb \in NotebookNames
  /\ ci = NextCell(nb, 1)
  /\ si = 1
  /\ bound = {}
  /\ defs = << >>
  /\ status = "running"
  /\ err = "none"
  /\ handled = {}

NextNB == ExecStmt \/ FailStmt \/ CatchStmt


----------------------------------------------------------------------------
\* SpecLP: preparation of the training and test sets for link prediction.
\* Arrays are sequences (1-based) holding the 0-based node and edge IDs of the
\* code.

\* Bounds of the input graphs and of the random draws.
MinNodes == 3
MaxNodes == 4
MinEdges == 10
MaxEdges == 12
MaxShift == 1
MaxRot == 2
MaxStart == 2
MaxStride == 1

Take(s, k) == SubSeq(s, 1, k)              \* s[:k]
Drop(s, k) == SubSeq(s, k + 1, Len(s))     \* s[k:]
Index(arr, idx) == [i \in 1..Len(idx) |-> arr[idx[i] + 1]]     \* arr[idx]

Max(S) == CHOOSE x \in S : \A y \in S : y <= x
Min(S) == CHOOSE x \in S : \A y \in S : x <= y

RECURSIVE SortedSeq(_)
SortedSeq(S) ==
  IF S = {} THEN << >> ELSE << Min(S) >> \o SortedSeq(S \ {Min(S)})

\* Input graphs: num_nodes nodes, the edges running cyclically through the
\* ordered pairs of the first m nodes (with or without the diagonal), so that
\* the family holds simple graphs, graphs with self-loops, graphs with parallel
\* edges (more edges than pairs), complete graphs and graphs whose last node
\* has no edge.
PairList(m, loops) ==
  SortedSeq({ k \in 0..(m * m - 1) : loops \/ (k \div m) # (k % m) })

MkGraph(n, m, e, s, loops) ==
  LET P == PairList(m, loops)
      key(i) == P[((s + i - 1) % Len(P)) + 1]
  IN [num_nodes |-> n,
      u |-> [i \in 1..e |-> key(i) \div m],
      v |-> [i \in 1..e |-> key(i) % m]]

Graphs ==
  UNION { { MkGraph(n, m, e, s, l) :
              m \in 2..n, e \in MinEdges..MaxEdges, s \in 0..MaxShift, l \in BOOLEAN } :
          n \in MinNodes..MaxNodes }

NumEdges(gr) == Len(gr.u)
NodeIds(gr) == 0..(gr.num_nodes - 1)
HasEdge(gr, a, b) == \E k \in 1..NumEdges(gr) : gr.u[k] = a /\ gr.v[k] = b

\* np.random.permutation(np.arange(E)): some permutation of 0..E-1; the draws
\* explored are the rotations of the identity and of its reversal.
EdgePermutations(e) ==
  { [i \in 1..e |-> IF rev THEN (e - 1) - ((i - 1 + r) % e) ELSE (i - 1 + r) % e] :
      r \in 0..MaxRot, rev \in BOOLEAN }

\* int(len(eids) * 0.1): the product is truncated towards zero. 0.1 as a double
\* lies just above 1/10, so for the sizes at hand the truncation is E div 10.
TestSize(e) == e \div 10

\* sp.coo_matrix((ones, (u, v))).todense(): the shape is inferred from the
\* largest row and column index, and entries given twice are summed.
AdjRows(gr) == Max({ gr.u[k] : k \in 1..NumEdges(gr) }) + 1
AdjCols(gr) == Max({ gr.v[k] : k \in 1..NumEdges(gr) }) + 1
Adj(gr, i, j) == Cardinality({ k \in 1..NumEdges(gr) : gr.u[k] = i /\ gr.v[k] = j })

\* 1 - adj.todense() - np.eye(num_nodes): the operands broadcast when each
\* dimension of adj is 1 or num_nodes, and the subtraction raises otherwise.
Broadcastable(gr) ==
  /\ AdjRows(gr) \in {1, gr.num_nodes}
  /\ AdjCols(gr) \in {1, gr.num_nodes}

Eye(i, j) == IF i = j THEN 1 ELSE 0

AdjNegEntry(gr, i, j) ==
  LET bi == IF AdjRows(gr) = 1 THEN 0 ELSE i
      bj == IF AdjCols(gr) = 1 THEN 0 ELSE j
  IN 1 - Adj(gr, bi, bj) - Eye(i, j)

AdjNeg(gr) == [i \in NodeIds(gr) |-> [j \in NodeIds(gr) |-> AdjNegEntry(gr, i, j)]]

\* np.where(adj_neg != 0): the row and column indices of the non-zero entries,
\* in row-major order.
NegKeys(gr, an) ==
  SortedSeq({ k \in 0..(gr.num_nodes * gr.num_nodes - 1) :
                an[k \div gr.num_nodes][k % gr.num_nodes] # 0 })

Where(gr, an) ==
  LET K == NegKeys(gr, an)
  IN [u |-> [i \in 1..Len(K) |-> K[i] \div gr.num_nodes],
      v |-> [i \in 1..Len(K) |-> K[i] % gr.num_nodes]]

\* np.random.choice(len(neg_u), g.num_edges()): num_edges draws with
\* replacement from 0..len(neg_u)-1; the draws explored step through the
\* candidates from a start with a fixed stride (stride 0 repeats one candidate).
NegSampleSize_Candidates(gr) == Len(Where(gr, AdjNeg(gr)).u)

NegSampleSize(gr) == NumEdges(gr)

Choices(n, size) ==
  { [i \in 1..size |-> (a + (i - 1) * b) % n] :
      a \in 0..Min({n - 1, MaxStart}), b \in 0..MaxStride }

\* eids[:test_size] and eids[test_size:]
TestIds(ids, ts) == Take(ids, ts)

TrainIds_OffByOne(ids, ts) == Drop(ids, ts + 1)

TrainIds(ids, ts) == Drop(ids, ts)

\* dgl.remove_edges(g, ids): the nodes are kept, the edges with the given IDs
\* are dropped, the others keep their order; eid records each kept edge's ID in g.
RemoveEdges(gr, ids) ==
  LET gone == { ids[i] : i \in 1..Len(ids) }
      kept == SortedSeq((0..(NumEdges(gr) - 1)) \ gone)
  IN [num_nodes |-> gr.num_nodes,
      u |-> Index(gr.u, kept), v |-> Index(gr.v, kept), eid |-> kept]

RemovedIds_Train(ids, ts) == TrainIds(ids, ts)

\* The edge IDs the training graph is built without.
RemovedIds(ids, ts) == TestIds(ids, ts)

\* u[ids], v[ids]
Positives(gr, ids) == [u |-> Index(gr.u, ids), v |-> Index(gr.v, ids), eid |-> ids]

NoGraph == [num_nodes |-> 0, u |-> << >>, v |-> << >>]
NoPairs == [u |-> << >>, v |-> << >>]
NoPositives == [u |-> << >>, v |-> << >>, eid |-> << >>]

InitLP ==
  /\ lp_pc = "start"
  /\ g = NoGraph
  /\ eids = << >>
  /\ test_size = 0
  /\ train_size = 0
  /\ test_pos = NoPositives
  /\ train_pos = NoPositives
  /\ adj_neg = << >>
  /\ neg = NoPairs
  /\ neg_eids = << >>
  /\ test_neg = NoPairs
  /\ train_neg = NoPairs
  /\ train_g = NoGraph

\* g = dataset[0]
LoadGraph ==
  /\ lp_pc = "start"
  /\ g' \in Graphs
  /\ lp_pc' = "loaded"
  /\ UNCHANGED << eids, test_size, train_size, test_pos, train_pos, adj_neg,
                  neg, neg_eids, test_neg, train_neg, train_g >>
  /\ UNCHANGED << nbvars, mpvars, trvars, gcvars >>

\* The cell that splits the edge set and samples the negative examples.
SplitEdges ==
  /\ lp_pc = "loaded"
  /\ Broadcastable(g)
  /\ \E p \in EdgePermutations(NumEdges(g)) :
       LET ts == TestSize(Len(p))
           an == AdjNeg(g)
           wh == Where(g, an)
       IN /\ Len(wh.u) > 0
          /\ eids' = p
          /\ test_size' = ts
          /\ train_size' = NumEdges(g) - ts
          /\ test_pos' = Positives(g, TestIds(p, ts))
          /\ train_pos' = Positives(g, TrainIds(p, ts))
          /\ adj_neg' = an
          /\ neg' = wh
          /\ \E c \in Choices(Len(wh.u), NegSampleSize(g)) :
               /\ neg_eids' = c
               /\ test_neg' = [u |-> Index(wh.u, Take(c, ts)), v |-> Index(wh.v, Take(c, ts))]
               /\ train_neg' = [u |-> Index(wh.u, Drop(c, ts)), v |-> Index(wh.v, Drop(c, ts))]
  /\ lp_pc' = "split"
  /\ UNCHANGED << g, train_g >>
  /\ UNCHANGED << nbvars, mpvars, trvars, gcvars >>

\* The same cell on a graph it cannot handle: the subtraction raises on
\* shapes that do not broadcast, np.random.choice raises on an empty population.
SplitRaises ==
  /\ lp_pc = "loaded"
  /\ \E p \in EdgePermutations(NumEdges(g)) :
       LET ts == TestSize(Len(p))
       IN /\ eids' = p
          /\ test_size' = ts
          /\ train_size' = NumEdges(g) - ts
          /\ test_pos' = Positives(g, TestIds(p, ts))
          /\ train_pos' = Positives(g, TrainIds(p, ts))
  /\ \/ /\ ~Broadcastable(g)
        /\ UNCHANGED << adj_neg, neg >>
     \/ /\ Broadcastable(g)
        /\ Len(Where(g, AdjNeg(g)).u) = 0
        /\ adj_neg' = AdjNeg(g)
        /\ neg' = Where(g, AdjNeg(g))
  /\ lp_pc' = "raised"
  /\ UNCHANGED << g, neg_eids, test_neg, train_neg, train_g >>
  /\ UNCHANGED << nbvars, mpvars, trvars, gcvars >>

\* train_g = dgl.remove_edges(g, eids[:test_size])
RemoveTestEdges ==
  /\ lp_pc = "split"
  /\ train_g' = RemoveEdges(g, RemovedIds(eids, test_size))
  /\ lp_pc' = "removed"
  /\ UNCHANGED << g, eids, test_size, train_size, test_pos, train_pos, adj_neg,
                  neg, neg_eids, test_neg, train_neg >>
  /\ UNCHANGED << nbvars, mpvars, trvars, gcvars >>

NextLP == LoadGraph \/ SplitEdges \/ SplitRaises \/ RemoveTestEdges

----------------------------------------------------------------------------
\* SpecMP: the graph-convolution modules of the message-passing notebook.
\* Tensors hold exact rationals << numerator, denominator >> in lowest terms
\* with a positive denominator; a node or edge feature is a sequence of them.

\* Bounds of the input graphs.
MaxMPNodes == 2
MaxMPEdges == 2

\* Widths of the hidden and of the output layer of Model.
HFeats == 1
NumClasses == 1

\* Feature widths, feature patterns and edge-weight patterns of the inputs.
FeatWidths == {1, 2}
FeatPatterns == {<<0, 0>>, <<1, 0>>, <<1, 1>>, <<2, 3>>}
WeightPatterns == {<<1, 0>>, <<2, 0>>, <<1, 1>>, <<3, 2>>}
LinearPatterns == {<<1, 1, 0>>, <<2, -1, 1>>}

Abs(x) == IF x < 0 THEN -x ELSE x

RECURSIVE GCD(_, _)
GCD(a, b) == IF b = 0 THEN a ELSE GCD(b, a % b)

Q(n, d) ==
  LET s == IF d < 0 THEN -1 ELSE 1
      k == GCD(Abs(n), Abs(d))
  IN << (s * n) \div k, (s * d) \div k >>

QInt(i) == << i, 1 >>
QAdd(a, b) == Q(a[1] * b[2] + b[1] * a[2], a[2] * b[2])
QMul(a, b) == Q(a[1] * b[1], a[2] * b[2])
QDivInt(a, k) == Q(a[1], a[2] * k)

RECURSIVE QSum(_)
QSum(s) == IF s = << >> THEN QInt(0) ELSE QAdd(Head(s), QSum(Tail(s)))

\* Input graphs: every sequence of at most MaxMPEdges edges over at most
\* MaxMPNodes nodes (self-loops and parallel edges included).
MPGraphs ==
  UNION { { [num_nodes |-> n, u |-> [i \in 1..e |-> p[i][1]], v |-> [i \in 1..e |-> p[i][2]]] :
              p \in [1..e -> (0..(n-1)) \X (0..(n-1))] } :
          n \in 1..MaxMPNodes, e \in 0..MaxMPEdges }

\* Node features (num_nodes x width) and edge weights (num_edges x 1).
NodeFeatures(gr, d) ==
  { [n \in 1..gr.num_nodes |-> [k \in 1..d |-> QInt(((p[1] * n + p[2] + 2 * k) % 4) - 1)]] :
      p \in FeatPatterns }

EdgeWeights(gr) ==
  { [e \in 1..NumEdges(gr) |-> << QInt(1 + ((p[1] + e * p[2]) % 3)) >>] :
      p \in WeightPatterns }

\* torch.ones(g.num_edges(), 1)
Ones(gr) == [e \in 1..NumEdges(gr) |-> << QInt(1) >>]

\* nn.Linear(in_features, out_features): weight (out x in) and bias.
Linear(inf, outf, p) ==
  [in_features |-> inf, out_features |-> outf,
   weight |-> [o \in 1..outf |-> [i \in 1..inf |-> p[1] + p[2] * ((i + o) % 2)]],
   bias |-> [o \in 1..outf |-> p[3]]]

\* self.linear(x) for one row x; the widths must agree.
ApplyLinear(lin, x) ==
  [o \in 1..lin.out_features |->
     QAdd(QSum([i \in 1..lin.in_features |-> QMul(QInt(lin.weight[o][i]), x[i])]),
          QInt(lin.bias[o]))]

\* F.relu
Relu(x) == [k \in 1..Len(x) |-> IF x[k][1] < 0 THEN QInt(0) ELSE x[k]]

InEdges(gr, n) == { e \in 1..NumEdges(gr) : gr.v[e] = n }
InDegree(gr, n) == Cardinality(InEdges(gr, n))

\* Built-in message functions: one message per edge.
\* fn.copy_u("h", "m")
copy_u(gr, hh) == [e \in 1..NumEdges(gr) |-> hh[gr.u[e] + 1]]

u_mul_e_AsAdd(gr, hh, ww) ==
  [e \in 1..NumEdges(gr) |->
     [k \in 1..Len(hh[gr.u[e] + 1]) |-> QAdd(hh[gr.u[e] + 1][k], ww[e][1])]]

\* fn.u_mul_e("h", "w", "m"): the (E x 1) weight broadcasts over the feature.
u_mul_e(gr, hh, ww) ==
  [e \in 1..NumEdges(gr) |->
     [k \in 1..Len(hh[gr.u[e] + 1]) |-> QMul(hh[gr.u[e] + 1][k], ww[e][1])]]

\* Built-in reduce functions: the messages of a node's incoming edges are
\* summed; fn.mean divides the sum by the in-degree clamped to at least 1, so
\* a node without incoming edge gets 0.
fn_sum(gr, m, d) ==
  [n \in 1..gr.num_nodes |->
     [k \in 1..d |-> QSum([i \in 1..InDegree(gr, n - 1) |->
                             m[SortedSeq(InEdges(gr, n - 1))[i]][k]])]]

fn_mean_AsSum(gr, m, d) == fn_sum(gr, m, d)

fn_mean(gr, m, d) ==
  [n \in 1..gr.num_nodes |->
     [k \in 1..d |-> QDivInt(fn_sum(gr, m, d)[n][k], Max({InDegree(gr, n - 1), 1}))]]

\* def u_mul_e_udf(edges): edges.src["h"] * edges.data["w"], on the batch of
\* all edges: row e of src is the feature of edge e's source node.
u_mul_e_udf(src, data) ==
  [e \in 1..Len(src) |-> [k \in 1..Len(src[e]) |-> QMul(src[e][k], data[e][1])]]

mean_udf_AsSum(mailbox) ==
  [i \in 1..Len(mailbox) |->
     [k \in 1..Len(mailbox[i][1]) |->
        QSum([j \in 1..Len(mailbox[i]) |-> mailbox[i][j][k]])]]

\* def mean_udf(nodes): nodes.mailbox["m"].mean(1), on a batch of nodes of
\* one in-degree: mailbox[i] is the sequence of messages of the i-th node.
mean_udf(mailbox) ==
  [i \in 1..Len(mailbox) |->
     [k \in 1..Len(mailbox[i][1]) |->
        QDivInt(QSum([j \in 1..Len(mailbox[i]) |-> mailbox[i][j][k]]), Len(mailbox[i]))]]

\* g.update_all with user-defined functions: the message function gets all
\* edges at once; the nodes are grouped by in-degree and the reduce function is
\* called once per group of positive in-degree with the stacked messages; the
\* nodes that receive no message keep a zero feature.
EdgeBatchSrc(gr, hh) == [e \in 1..NumEdges(gr) |-> hh[gr.u[e] + 1]]

Bucket(gr, deg) == SortedSeq({ n \in NodeIds(gr) : InDegree(gr, n) = deg })

Mailbox(gr, m, deg) ==
  LET B == Bucket(gr, deg)
  IN [i \in 1..Len(B) |->
        [j \in 1..deg |-> m[SortedSeq(InEdges(gr, B[i]))[j]]]]

PosOf(s, x) == CHOOSE i \in 1..Len(s) : s[i] = x

UpdateAllUDF(gr, hh, ww, d) ==
  LET m == u_mul_e_udf(EdgeBatchSrc(gr, hh), ww)
      red(deg) == mean_udf(Mailbox(gr, m, deg))
  IN [m |-> m,
      h_N |-> [n \in 1..gr.num_nodes |->
                 IF InDegree(gr, n - 1) = 0
                   THEN [k \in 1..d |-> QInt(0)]
                   ELSE red(InDegree(gr, n - 1))[PosOf(Bucket(gr, InDegree(gr, n - 1)), n - 1)]]]

\* torch.cat([h, h_N], dim=1)
Cat(a, b) == [n \in 1..Len(a) |-> a[n] \o b[n]]

\* SAGEConv.forward(g, h)
SAGEConv_forward(lin, gr, hh, d) ==
  LET m == copy_u(gr, hh)
      h_N == fn_mean(gr, m, d)
      h_total == Cat(hh, h_N)
  IN [m |-> m, h_N |-> h_N, h_total |-> h_total,
      out |-> [n \in 1..gr.num_nodes |-> ApplyLinear(lin, h_total[n])]]

\* WeightedSAGEConv.forward(g, h, w)
WeightedSAGEConv_forward(lin, gr, hh, ww, d) ==
  LET m == u_mul_e(gr, hh, ww)
      h_N == fn_mean(gr, m, d)
      h_total == Cat(hh, h_N)
  IN [m |-> m, h_N |-> h_N, h_total |-> h_total,
      out |-> [n \in 1..gr.num_nodes |-> ApplyLinear(lin, h_total[n])]]

\* Model.forward of the first Model (two SAGEConv layers).
Model_forward(l1, l2, gr, x, d) ==
  LET c1 == SAGEConv_forward(l1, gr, x, d)
      hr == [n \in 1..gr.num_nodes |-> Relu(c1.out[n])]
      c2 == SAGEConv_forward(l2, gr, hr, l1.out_features)
  IN [conv1 |-> c1, conv2 |-> c2, out |-> c2.out]

\* Model.forward of the second Model (two WeightedSAGEConv layers, all edge
\* weights 1).
WeightedModel_forward(l1, l2, gr, x, d) ==
  LET c1 == WeightedSAGEConv_forward(l1, gr, x, Ones(gr), d)
      hr == [n \in 1..gr.num_nodes |-> Relu(c1.out[n])]
      c2 == WeightedSAGEConv_forward(l2, gr, hr, Ones(gr), l1.out_features)
  IN [conv1 |-> c1, conv2 |-> c2, out |-> c2.out]

None == [m |-> << >>, h_N |-> << >>]

InitMP ==
  /\ mp_pc = "start"
  /\ mg \in MPGraphs
  /\ in_feat \in FeatWidths
  /\ h \in NodeFeatures(mg, in_feat)
  /\ w \in EdgeWeights(mg)
  /\ \E p \in LinearPatterns :
       /\ linear1 = Linear(in_feat * 2, HFeats, p)
       /\ linear2 = Linear(HFeats * 2, NumClasses, p)
  /\ sage = None
  /\ wsage = None
  /\ udf = None
  /\ model = None
  /\ wmodel = None

\* SAGEConv(in_feat, out_feat)(g, h)
RunSAGEConv ==
  /\ mp_pc = "start"
  /\ sage' = SAGEConv_forward(linear1, mg, h, in_feat)
  /\ mp_pc' = "sage"
  /\ UNCHANGED << mg, in_feat, h, w, linear1, linear2, wsage, udf, model, wmodel >>
  /\ UNCHANGED << nbvars, lpvars, trvars, gcvars >>

\* Model(...)(g, features) with the SAGEConv layers
RunModel ==
  /\ mp_pc = "sage"
  /\ model' = Model_forward(linear1, linear2, mg, h, in_feat)
  /\ mp_pc' = "model"
  /\ UNCHANGED << mg, in_feat, h, w, linear1, linear2, sage, wsage, udf, wmodel >>
  /\ UNCHANGED << nbvars, lpvars, trvars, gcvars >>

\* WeightedSAGEConv(in_feat, out_feat)(g, h, w)
RunWeightedSAGEConv ==
  /\ mp_pc = "model"
  /\ wsage' = WeightedSAGEConv_forward(linear1, mg, h, w, in_feat)
  /\ mp_pc' = "wsage"
  /\ UNCHANGED << mg, in_feat, h, w, linear1, linear2, sage, udf, model, wmodel >>
  /\ UNCHANGED << nbvars, lpvars, trvars, gcvars >>

\* Model(...)(g, features) with the WeightedSAGEConv layers
RunWeightedModel ==
  /\ mp_pc = "wsage"
  /\ wmodel' = WeightedModel_forward(linear1, linear2, mg, h, in_feat)
  /\ mp_pc' = "wmodel"
  /\ UNCHANGED << mg, in_feat, h, w, linear1, linear2, sage, wsage, udf, model >>
  /\ UNCHANGED << nbvars, lpvars, trvars, gcvars >>

\* g.update_all(u_mul_e_udf, mean_udf) on the same g, h and w
RunUpdateAllUDF ==
  /\ mp_pc = "wmodel"
  /\ udf' = UpdateAllUDF(mg, h, w, in_feat)
  /\ mp_pc' = "udf"
  /\ UNCHANGED << mg, in_feat, h, w, linear1, linear2, sage, wsage, model, wmodel >>
  /\ UNCHANGED << nbvars, lpvars, trvars, gcvars >>

NextMP == RunSAGEConv \/ RunModel \/ RunWeightedSAGEConv \/ RunWeightedModel \/ RunUpdateAllUDF

----------------------------------------------------------------------------
\* SpecTR: the training loops of the notebooks.
\*
\* A loop is described by its source: the number of epochs of its `for`, the
\* statements of the body before, inside and after the loop over minibatches
\* (only the graph-level tasks have one), in source order.  Values are kept as
\* far as the progress lines need them: a tensor computed from the model is
\* identified by the number of optimizer steps the model had taken (its
\* version), accuracies by an accuracy curve over versions.

MaxBatches == 2

TrainLoops ==
  {"part_000", "part_001", "introduction", "link_predict", "part_003",
   "graph_classification", "part_002", "graph_transformer"}

\* train(g, model) of the message-passing notebook (both versions).
train_message_passing ==
  [epochs |-> 200,
   pre    |-> << "logits = model(g, features)", "pred = logits.argmax(1)",
                 "loss = F.cross_entropy", "train_acc =", "val_acc =", "test_acc =",
                 "if best_val_acc < val_acc", "optimizer.zero_grad()", "loss.backward()",
                 "optimizer.step()", "all_logits.append(logits.detach())",
                 "if e % 5 == 0" >>,
   inner  |-> << >>,
   post   |-> << >>,
   line   |-> "node"]

\* train(g, model) of 1_introduction.
train_introduction ==
  [epochs |-> 100,
   pre    |-> << "logits = model(g, features)", "pred = logits.argmax(1)",
                 "train_acc =", "val_acc =", "test_acc =", "loss = F.cross_entropy",
                 "if best_val_acc < val_acc", "optimizer.zero_grad()", "loss.backward()",
                 "optimizer.step()", "if e % 5 == 0" >>,
   inner  |-> << >>,
   post   |-> << >>,
   line   |-> "node"]

\* The training loop of the link-prediction notebook (both versions).
train_link_predict ==
  [epochs |-> 100,
   pre    |-> << "h = model(train_g, feat)", "pos_score = pred(train_pos_g, h)",
                 "neg_score = pred(train_neg_g, h)", "loss = compute_loss",
                 "optimizer.zero_grad()", "loss.backward()", "optimizer.step()",
                 "if e % 5 == 0" >>,
   inner  |-> << >>,
   post   |-> << >>,
   line   |-> "link"]

\* The training loop of 5_graph_classification (tqdm(range(20)), .to(device)).
train_graph_classification ==
  [epochs |-> 20,
   pre    |-> << >>,
   inner  |-> << "to(device)", "pred = model(batched_graph, attr)", "loss = F.cross_entropy",
                 "optimizer.zero_grad()", "loss.backward()", "optimizer.step()" >>,
   post   |-> << >>,
   line   |-> "none"]

\* The training loop of the earlier version of the graph-classification notebook.
train_part_002 ==
  [epochs |-> 20,
   pre    |-> << >>,
   inner  |-> << "pred = model(batched_graph, attr)", "loss = F.cross_entropy",
                 "optimizer.zero_grad()", "loss.backward()", "optimizer.step()" >>,
   post   |-> << >>,
   line   |-> "none"]

\* train(model, dataset, evaluator, device) of the graph transformer.
train_graph_transformer ==
  [epochs |-> 20,
   pre    |-> << "model.train()", "total_loss = 0.0" >>,
   inner  |-> << "to(device)", "logits = model(batched_g, feat, PE)", "loss = loss_fcn",
                 "total_loss += loss.item()", "optimizer.zero_grad()", "loss.backward()",
                 "optimizer.step()" >>,
   post   |-> << "scheduler.step()", "avg_loss =", "val_metric = evaluate",
                 "test_metric = evaluate", "print" >>,
   line   |-> "graph"]

LoopOf(name) ==
  CASE name \in {"part_000", "part_001"}    -> train_message_passing
    [] name = "introduction"                -> train_introduction
    [] name \in {"link_predict", "part_003"} -> train_link_predict
    [] name = "graph_classification"        -> train_graph_classification
    [] name = "part_002"                    -> train_part_002
    [] name = "graph_transformer"           -> train_graph_transformer

\* Statements that call into torch / dgl / the evaluator (they can raise).
LibraryStatements ==
  {"logits = model(g, features)", "pred = logits.argmax(1)", "loss = F.cross_entropy",
   "train_acc =", "val_acc =", "test_acc =", "optimizer.zero_grad()", "loss.backward()",
   "optimizer.step()", "h = model(train_g, feat)", "pos_score = pred(train_pos_g, h)",
   "neg_score = pred(train_neg_g, h)", "loss = compute_loss", "to(device)",
   "pred = model(batched_graph, attr)", "model.train()",
   "logits = model(batched_g, feat, PE)", "loss = loss_fcn", "total_loss += loss.item()",
   "scheduler.step()", "val_metric = evaluate", "test_metric = evaluate"}

\* Statements computing a tensor from the current model.
ForwardStatements ==
  {"logits = model(g, features)", "h = model(train_g, feat)",
   "pred = model(batched_graph, attr)", "logits = model(batched_g, feat, PE)"}

LossStatements == {"loss = F.cross_entropy", "loss = compute_loss", "loss = loss_fcn"}

\* How the accuracies of the model evolve with its version: an input.
AccCurves == {<< 0, 1 >>, << 1, 0 >>, << 1, 2 >>}
ValAcc(c, v) == (c[1] * v + c[2]) % 3
TestAcc(c, v) == (c[2] * v + c[1]) % 3

\* Number of minibatches of the training loader: the graph transformer trains
\* on the fixed, non-empty ogbg-molhiv split; the graph-classification loader
\* is empty when the dataset has fewer than two graphs.
BatchCounts(name) ==
  CASE name = "graph_transformer"                      -> 1..MaxBatches
    [] name \in {"graph_classification", "part_002"}   -> 0..MaxBatches
    [] OTHER                                           -> {0}

\* The state of a run of train / of the loop, on entry.
StartRun(name, c, nbatch) ==
  [loop |-> name, curve |-> c, nbatch |-> nbatch,
   pc |-> "for", i |-> 0,        \* position: the `for` header, or statement i of a part
   it |-> 0,                     \* next value of the range iterator
   e |-> -1,                     \* the loop variable (unbound before the first epoch)
   b_it |-> 0,                   \* next minibatch of the loader iterator
   epochs |-> 0,                 \* epochs entered
   ops |-> << >>,                \* statements executed in the current epoch
   last_ops |-> << >>,           \* statements executed in the last completed epoch
   version |-> 0,                \* optimizer steps taken
   logits |-> -1, loss |-> -1, grad |-> -1,   \* version they were computed from
   val_acc |-> 0, test_acc |-> 0, best_val_acc |-> 0, best_test_acc |-> 0,
   total_loss |-> 0, all_logits |-> 0,
   lines |-> << >>]              \* the progress lines printed

NoRun == [loop |-> "none", pc |-> "idle"]

\* The statement at a position.
StatementAt(r) ==
  LET L == LoopOf(r.loop) IN
  CASE r.pc = "pre"   -> L.pre[r.i]
    [] r.pc = "inner" -> L.inner[r.i]
    [] r.pc = "post"  -> L.post[r.i]
    [] OTHER          -> r.pc

\* Control flow: the position reached after statement i of a part (i = 0: on
\* entering the part).
RECURSIVE After(_, _, _)
After(L, part, i) ==
  CASE part = "pre" ->
         IF i < Len(L.pre) THEN << "pre", i + 1 >>
         ELSE IF L.inner # << >> THEN << "batch_for", 0 >>
         ELSE After(L, "post", 0)
    [] part = "inner" ->
         IF i < Len(L.inner) THEN << "inner", i + 1 >> ELSE << "batch_for", 0 >>
    [] part = "post" ->
         IF i < Len(L.post) THEN << "post", i + 1 >> ELSE << "for", 0 >>

GoTo(r, pos) ==
  IF pos[1] = "for"
    THEN [r EXCEPT !.pc = "for", !.i = 0, !.last_ops = r.ops]
    ELSE [r EXCEPT !.pc = pos[1], !.i = pos[2]]

\* The progress line a print statement writes.
ProgressLine(r) ==
  LET L == LoopOf(r.loop) IN
  CASE L.line = "node"  -> << r.e, r.loss, r.val_acc, r.best_val_acc, r.test_acc, r.best_test_acc >>
    [] L.line = "link"  -> << r.e, r.loss >>
    [] L.line = "graph" -> << r.e, r.total_loss, r.nbatch, r.val_acc, r.test_acc >>

\* The effect of the statement s on the values of the run.
Effect(r, s) ==
  CASE s \in ForwardStatements      -> [r EXCEPT !.logits = r.version]
    [] s \in LossStatements         -> [r EXCEPT !.loss = r.logits]
    [] s = "val_acc ="              -> [r EXCEPT !.val_acc = ValAcc(r.curve, r.logits)]
    [] s = "test_acc ="             -> [r EXCEPT !.test_acc = TestAcc(r.curve, r.logits)]
    [] s = "if best_val_acc < val_acc" ->
         IF r.best_val_acc < r.val_acc
           THEN [r EXCEPT !.best_val_acc = r.val_acc, !.best_test_acc = r.test_acc,
                          !.ops = Append(r.ops, "best_val_acc = val_acc")]
           ELSE r
    [] s = "optimizer.zero_grad()"  -> [r EXCEPT !.grad = -1]
    [] s = "loss.backward()"        -> [r EXCEPT !.grad = r.loss]
    [] s = "optimizer.step()"       -> [r EXCEPT !.version = r.version + 1]
    [] s = "all_logits.append(logits.detach())" -> [r EXCEPT !.all_logits = r.all_logits + 1]
    [] s = "total_loss = 0.0"       -> [r EXCEPT !.total_loss = 0]
    [] s = "total_loss += loss.item()" -> [r EXCEPT !.total_loss = r.total_loss + r.loss]
    [] s = "val_metric = evaluate"  -> [r EXCEPT !.val_acc = ValAcc(r.curve, r.version)]
    [] s = "test_metric = evaluate" -> [r EXCEPT !.test_acc = TestAcc(r.curve, r.version)]
    [] s = "if e % 5 == 0" ->
         IF r.e % 5 = 0
           THEN [r EXCEPT !.lines = Append(r.lines, ProgressLine(r)),
                          !.ops = Append(r.ops, "print")]
           ELSE r
    [] s = "print"                  -> [r EXCEPT !.lines = Append(r.lines, ProgressLine(r))]
    [] OTHER                        -> r

\* An early-stopping test in the header of the loop.
EpochsLeft_EarlyStop(r) ==
  r.it < LoopOf(r.loop).epochs /\ ~(r.epochs > 0 /\ r.val_acc < r.best_val_acc)

\* range(n) has a next value: the only test of the loop header.
EpochsLeft(r) == r.it < LoopOf(r.loop).epochs

\* One step of a run: the `for` header, the header of the loop over
\* minibatches, or one statement of the body.
StepRun(r) ==
  LET L == LoopOf(r.loop) IN
  CASE r.pc = "for" ->
         IF EpochsLeft(r)
           THEN GoTo([r EXCEPT !.e = r.it, !.it = r.it + 1, !.epochs = r.epochs + 1,
                               !.b_it = 0, !.ops = << >>],
                     After(L, "pre", 0))
           ELSE [r EXCEPT !.pc = "done"]
    [] r.pc = "batch_for" ->
         IF r.b_it < r.nbatch
           THEN GoTo([r EXCEPT !.b_it = r.b_it + 1], After(L, "inner", 0))
           ELSE GoTo(r, After(L, "post", 0))
    [] r.pc \in {"pre", "inner", "post"} ->
         LET s == StatementAt(r) IN
         GoTo(Effect([r EXCEPT !.ops = Append(r.ops, s)], s), After(L, r.pc, r.i))
    [] OTHER -> r

Finished(r) == r.pc \in {"done", "raised", "idle"}

InitTR ==
  /\ \E name \in TrainLoops : \E c \in AccCurves : \E n \in BatchCounts(name) :
       tr = StartRun(name, c, n)
  /\ ref = NoRun

\* The `for` header: enter the next epoch, or leave the loop.
ForEpoch ==
  /\ tr.pc = "for"
  /\ tr' = StepRun(tr)
  /\ UNCHANGED << ref, nbvars, lpvars, mpvars, gcvars >>

\* The header of the loop over the minibatches of the training loader.
ForBatch ==
  /\ tr.pc = "batch_for"
  /\ tr' = StepRun(tr)
  /\ UNCHANGED << ref, nbvars, lpvars, mpvars, gcvars >>

\* A statement of the body runs.
ExecStatement ==
  /\ tr.pc \in {"pre", "inner", "post"}
  /\ tr' = StepRun(tr)
  /\ UNCHANGED << ref, nbvars, lpvars, mpvars, gcvars >>

\* A library call of the body raises: nothing in the loops catches it.
StatementRaises ==
  /\ tr.pc \in {"pre", "inner", "post"}
  /\ StatementAt(tr) \in LibraryStatements
  /\ tr' = [tr EXCEPT !.pc = "raised"]
  /\ UNCHANGED << ref, nbvars, lpvars, mpvars, gcvars >>

NextTR == ForEpoch \/ ForBatch \/ ExecStatement \/ StatementRaises

\* SpecCopy: train of the message-passing notebook (tr) and train of
\* 1_introduction (ref) on the same graph and the same model, step by step.
InitCopy ==
  \E name \in {"part_000", "part_001"} : \E c \in AccCurves :
    /\ tr = StartRun(name, c, 0)
    /\ ref = StartRun("introduction", c, 0)

StepBoth ==
  /\ ~(Finished(tr) /\ Finished(ref))
  /\ tr' = StepRun(tr)
  /\ ref' = StepRun(ref)
  /\ UNCHANGED << nbvars, lpvars, mpvars, gcvars >>

NextCopy == StepBoth

----------------------------------------------------------------------------
\* SpecGC: the data loaders and the models of the graph-classification notebook.
\*
\* Node representations are kept as terms: a convolution's output at a node
\* records the layer and everything the layer reads there (own feature, degrees,
\* the bag of neighbour features); equal terms are equal tensors.

MaxGCGraphs == 8
MaxGCNodes == 2
MaxPermShift == 1

\* A bag, as the set of << element, multiplicity >>, of msg(e) for e in E.
MsgBag(E, msg(_)) ==
  { << m, Cardinality({ e \in E : msg(e) = m }) >> : m \in { msg(e) : e \in E } }

\* dataset[i]: GINDataset("PROTEINS", self_loop=True) gives undirected graphs
\* (both directions of every edge) with a self-loop on every node, node
\* attributes "attr" and a label.
DatasetGraph(p, i) ==
  LET n == 1 + ((i + p) % MaxGCNodes) IN
  [num_nodes |-> n,
   u     |-> [k \in 1..n |-> k - 1] \o [k \in 1..(n - 1) |-> k - 1] \o [k \in 1..(n - 1) |-> k],
   v     |-> [k \in 1..n |-> k - 1] \o [k \in 1..(n - 1) |-> k] \o [k \in 1..(n - 1) |-> k - 1],
   attr  |-> [k \in 1..n |-> (i + k * (p + 1)) % 2],
   label |-> (i + p) % 2]

Dataset(p, n) == [i \in 1..n |-> DatasetGraph(p, i - 1)]

\* int(num_examples * 0.8)
NumTrain(num_examples) == (num_examples * 8) \div 10

\* torch.arange(a, b)
Arange(a, b) == [k \in 1..(IF b > a THEN b - a ELSE 0) |-> a + k - 1]

TrainIndices(num_train) == Arange(0, num_train)

TestIndices_FromZero(num_train, num_examples) == Arange(0, num_examples)

TestIndices(num_train, num_examples) == Arange(num_train, num_examples)

\* torch.randperm(n): some of the permutations of 0..n-1.
RandPerm(n) ==
  IF n = 0 THEN { << >> }
  ELSE { [i \in 1..n |-> IF rev THEN (n - 1) - ((i - 1 + r) % n) ELSE (i - 1 + r) % n] :
           r \in 0..MaxPermShift, rev \in BOOLEAN }

\* SubsetRandomSampler.__iter__: indices[i] for i in torch.randperm(len(indices))
SubsetRandomSampler(indices) ==
  { [k \in 1..Len(indices) |-> indices[perm[k] + 1]] : perm \in RandPerm(Len(indices)) }

BatchSize == 5

\* The next minibatch of the batch sampler (drop_last=False): up to batch_size
\* of the indices that are left.
NextIndices(order, pos) ==
  SubSeq(order, pos + 1, IF pos + BatchSize < Len(order) THEN pos + BatchSize ELSE Len(order))

RECURSIVE SumNodes(_, _)
SumNodes(gs, k) == IF k = 0 THEN 0 ELSE SumNodes(gs, k - 1) + gs[k].num_nodes

Shifted(s, d) == [i \in 1..Len(s) |-> s[i] + d]

RECURSIVE CatShifted(_, _, _)
CatShifted(gs, k, f) ==
  IF k = 0 THEN << >>
  ELSE CatShifted(gs, k - 1, f) \o Shifted(gs[k][f], SumNodes(gs, k - 1))

RECURSIVE CatAttr(_, _)
CatAttr(gs, k) == IF k = 0 THEN << >> ELSE CatAttr(gs, k - 1) \o gs[k].attr

\* dgl.batch: the graphs as disconnected components of one graph, node IDs
\* shifted by the number of nodes before, features concatenated.
dgl_batch(gs) ==
  [num_nodes |-> SumNodes(gs, Len(gs)),
   u    |-> CatShifted(gs, Len(gs), "u"),
   v    |-> CatShifted(gs, Len(gs), "v"),
   attr |-> CatAttr(gs, Len(gs)),
   batch_num_nodes |-> [i \in 1..Len(gs) |-> gs[i].num_nodes]]

\* The collate function of GraphDataLoader: batched graph and label vector.
Collate(ds, idx) ==
  [batched_graph |-> dgl_batch([k \in 1..Len(idx) |-> ds[idx[k] + 1]]),
   labels        |-> [k \in 1..Len(idx) |-> ds[idx[k] + 1].label]]

OutDegree(gr, n) == Cardinality({ e \in 1..NumEdges(gr) : gr.u[e] = n })

\* GraphConv (norm="both"): at node v, from the features of the sources of its
\* incoming edges, their out-degrees and its in-degree.
GraphConv(layer, gr, x) ==
  [n \in 1..gr.num_nodes |->
     [op |-> layer, in_deg |-> InDegree(gr, n - 1),
      msgs |-> MsgBag(InEdges(gr, n - 1),
                      LAMBDA e : << x[gr.u[e] + 1], OutDegree(gr, gr.u[e]) >>)]]

\* GINConv(nn.Linear, "sum"): at node v, from its own feature and the sum of
\* the features of the sources of its incoming edges.
GINConv(layer, gr, x) ==
  [n \in 1..gr.num_nodes |->
     [op |-> layer, self |-> x[n],
      msgs |-> MsgBag(InEdges(gr, n - 1), LAMBDA e : x[gr.u[e] + 1])]]

F_relu(x) == [n \in 1..Len(x) |-> [op |-> "relu", arg |-> x[n]]]

RECURSIVE SumSeq(_, _)
SumSeq(s, k) == IF k = 0 THEN 0 ELSE SumSeq(s, k - 1) + s[k]

\* A readout that ignores the batch: one row for the whole batched graph.
mean_nodes_Unbatched(bg, x) ==
  << [op |-> "mean", of |-> MsgBag(1..bg.num_nodes, LAMBDA n : x[n])] >>

\* dgl.mean_nodes(g, "h"): one row per graph of the batch, the mean over the
\* batch_num_nodes[i] nodes of the i-th segment.
mean_nodes(bg, x) ==
  [i \in 1..Len(bg.batch_num_nodes) |->
     LET first == SumSeq(bg.batch_num_nodes, i - 1) + 1
         last  == SumSeq(bg.batch_num_nodes, i)
     IN [op |-> "mean", of |-> MsgBag(first..last, LAMBDA n : x[n])]]

\* GCN.forward / GIN.forward up to g.ndata["h"] = h
NodeRepresentations(kind, gr, x) ==
  IF kind = "GCN"
    THEN GraphConv("conv2", gr, F_relu(GraphConv("conv1", gr, x)))
    ELSE GINConv("conv2", gr, F_relu(GINConv("conv1", gr, x)))

GCN_forward(gr, x) == mean_nodes(gr, NodeRepresentations("GCN", gr, x))

GIN_forward(gr, x) == mean_nodes(gr, NodeRepresentations("GIN", gr, x))

Forward(kind, gr, x) == IF kind = "GCN" THEN GCN_forward(gr, x) ELSE GIN_forward(gr, x)

GCEpochs == 20

NoBatch == [num_nodes |-> 0, u |-> << >>, v |-> << >>, attr |-> << >>, batch_num_nodes |-> << >>]

InitGC ==
  \E kind \in {"GCN", "GIN"} : \E p \in 0..1 : \E n \in 1..MaxGCGraphs :
    gc = [pc |-> "start", kind |-> kind, dataset |-> Dataset(p, n),
          num_examples |-> 0, num_train |-> 0,
          train_sampler |-> << >>, test_sampler |-> << >>,
          epoch_it |-> 0,             \* next value of range(20)
          order |-> << >>, pos |-> 0, \* the indices of the running loader iterator
          seen |-> << >>,             \* dataset indices it has yielded
          batch |-> << >>,            \* dataset indices of the current minibatch
          batched_graph |-> NoBatch, labels |-> << >>, pred |-> << >>,
          num_tests |-> 0]

\* The cell creating the samplers and the loaders.
MakeLoaders ==
  /\ gc.pc = "start"
  /\ LET num_examples == Len(gc.dataset)
         num_train == NumTrain(num_examples)
     IN gc' = [gc EXCEPT !.pc = "loaders",
                         !.num_examples = num_examples, !.num_train = num_train,
                         !.train_sampler = TrainIndices(num_train),
                         !.test_sampler = TestIndices(num_train, num_examples)]
  /\ UNCHANGED << nbvars, lpvars, mpvars, trvars >>

\* it = iter(train_dataloader); batch = next(it)
PeekBatch ==
  /\ gc.pc = "loaders"
  /\ gc.train_sampler # << >>
  /\ \E order \in SubsetRandomSampler(gc.train_sampler) :
       LET idx == NextIndices(order, 0)
           b == Collate(gc.dataset, idx)
       IN gc' = [gc EXCEPT !.pc = "ready", !.batch = idx,
                           !.batched_graph = b.batched_graph, !.labels = b.labels]
  /\ UNCHANGED << nbvars, lpvars, mpvars, trvars >>

\* next(it) on an empty loader raises StopIteration.
PeekRaises ==
  /\ gc.pc = "loaders"
  /\ gc.train_sampler = << >>
  /\ gc' = [gc EXCEPT !.pc = "raised"]
  /\ UNCHANGED << nbvars, lpvars, mpvars, trvars >>

\* for epoch in range(20): for ... in train_dataloader: a new iterator.
TrainEpoch ==
  /\ gc.pc = "ready"
  /\ gc.epoch_it < GCEpochs
  /\ \E order \in SubsetRandomSampler(gc.train_sampler) :
       gc' = [gc EXCEPT !.pc = "train", !.epoch_it = gc.epoch_it + 1,
                        !.order = order, !.pos = 0, !.seen = << >>]
  /\ UNCHANGED << nbvars, lpvars, mpvars, trvars >>

\* The loader yields the next minibatch.
NextBatch ==
  /\ gc.pc \in {"train", "test"}
  /\ gc.pos < Len(gc.order)
  /\ LET idx == NextIndices(gc.order, gc.pos)
         b == Collate(gc.dataset, idx)
     IN gc' = [gc EXCEPT !.pc = IF gc.pc = "train" THEN "train_batch" ELSE "test_batch",
                         !.pos = gc.pos + Len(idx), !.seen = gc.seen \o idx,
                         !.batch = idx, !.batched_graph = b.batched_graph,
                         !.labels = b.labels, !.pred = << >>]
  /\ UNCHANGED << nbvars, lpvars, mpvars, trvars >>

\* pred = model(batched_graph, batched_graph.ndata["attr"].float()), and the
\* rest of the body of the loop.
ModelForward ==
  /\ gc.pc \in {"train_batch", "test_batch"}
  /\ gc' = [gc EXCEPT !.pc = IF gc.pc = "train_batch" THEN "train" ELSE "test",
                      !.pred = Forward(gc.kind, gc.batched_graph, gc.batched_graph.attr),
                      !.num_tests = IF gc.pc = "test_batch"
                                      THEN gc.num_tests + Len(gc.labels) ELSE gc.num_tests]
  /\ UNCHANGED << nbvars, lpvars, mpvars, trvars >>

\* The training loader is exhausted: the epoch ends.
EndEpoch ==
  /\ gc.pc = "train"
  /\ gc.pos = Len(gc.order)
  /\ gc' = [gc EXCEPT !.pc = "ready"]
  /\ UNCHANGED << nbvars, lpvars, mpvars, trvars >>

\* for ... in test_dataloader, after the last epoch.
StartTest ==
  /\ gc.pc = "ready"
  /\ gc.epoch_it = GCEpochs
  /\ \E order \in SubsetRandomSampler(gc.test_sampler) :
       gc' = [gc EXCEPT !.pc = "test", !.order = order, !.pos = 0, !.seen = << >>,
                        !.num_tests = 0]
  /\ UNCHANGED << nbvars, lpvars, mpvars, trvars >>

\* The test loader is exhausted: print("Test accuracy:", ...)
EndTest ==
  /\ gc.pc = "test"
  /\ gc.pos = Len(gc.order)
  /\ gc' = [gc EXCEPT !.pc = "done"]
  /\ UNCHANGED << nbvars, lpvars, mpvars, trvars >>

NextGC ==
  \/ MakeLoaders \/ PeekBatch \/ PeekRaises \/ TrainEpoch \/ NextBatch
  \/ ModelForward \/ EndEpoch \/ StartTest \/ EndTest

----------------------------------------------------------------------------
\* The three specifications. Each runs one machine; the variables of the other
\* two stay at their idle values.
IdleNB ==
  /\ nb = "none" /\ ci = 0 /\ si = 0 /\ bound = {} /\ defs = << >>
  /\ status = "idle" /\ err = "none" /\ handled = {}

IdleLP ==
  /\ lp_pc = "idle" /\ g = NoGraph /\ eids = << >> /\ test_size = 0 /\ train_size = 0
  /\ test_pos = NoPositives /\ train_pos = NoPositives /\ adj_neg = << >> /\ neg = NoPairs
  /\ neg_eids = << >> /\ test_neg = NoPairs /\ train_neg = NoPairs /\ train_g = NoGraph

IdleMP ==
  /\ mp_pc = "idle" /\ mg = NoGraph /\ in_feat = 0 /\ h = << >> /\ w = << >>
  /\ linear1 = << >> /\ linear2 = << >>
  /\ sage = None /\ wsage = None /\ udf = None /\ model = None /\ wmodel = None

IdleTR == tr = NoRun /\ ref = NoRun

IdleGC == gc = NoRun

InitSpecNB == InitNB /\ IdleLP /\ IdleMP /\ IdleTR /\ IdleGC

InitSpecLP == InitLP /\ IdleNB /\ IdleMP /\ IdleTR /\ IdleGC

InitSpecMP == InitMP /\ IdleNB /\ IdleLP /\ IdleTR /\ IdleGC

InitSpecTR == InitTR /\ IdleNB /\ IdleLP /\ IdleMP /\ IdleGC

InitSpecCopy == InitCopy /\ IdleNB /\ IdleLP /\ IdleMP /\ IdleGC

InitSpecGC == InitGC /\ IdleNB /\ IdleLP /\ IdleMP /\ IdleTR

SpecNB == InitSpecNB /\ [][NextNB]_vars

SpecLP == InitSpecLP /\ [][NextLP]_vars

SpecMP == InitSpecMP /\ [][NextMP]_vars

SpecTR == InitSpecTR /\ [][NextTR]_vars

\* The loop is the only thing running: a step that can be taken is taken.
FairSpecTR == SpecTR /\ WF_vars(NextTR)

SpecCopy == InitSpecCopy /\ [][NextCopy]_vars

SpecGC == InitSpecGC /\ [][NextGC]_vars

----------------------------------------------------------------------------
\* C1: every notebook runs top to bottom without a cell stopping on an
\* undefined name: no run is ever aborted by a NameError.
C1_NoUndefinedName == err # "NameError"

\* The same, for every notebook but the message-passing notebook part_000.
C1_OnlyPart000 == err = "NameError" => nb = "part_000" /\ Current.line = 193

\* C2: no failure is ever caught: the set of handled failures stays empty.
C2_NothingCaught == handled = {}

\* C2 (amended): the only failure the notebooks catch is an ImportError raised
\* by `import dgl` (line 45) in the first cell of the graph-transformer
\* notebook; every other failure aborts the run in the statement that raised it.
C2_OnlyImportDglCaught ==
  /\ handled \subseteq {[nb |-> "graph_transformer", line |-> 45, exc |-> "ImportError"]}
  /\ handled # {} => nb = "graph_transformer"

\* A run of the graph-transformer notebook in which the ImportError was caught
\* and the run went on past the try (installed is bound by the handler).
C2_Witness ==
  /\ handled # {}
  /\ "installed" \in bound
  /\ "dgl" \notin bound
  /\ status = "running"

----------------------------------------------------------------------------
\* Claims about the link-prediction data preparation.
SplitDone == lp_pc \in {"split", "removed"}

IdSet(ids) == { ids[i] : i \in 1..Len(ids) }

AllNegatives ==
  { << test_neg.u[k], test_neg.v[k] >> : k \in 1..Len(test_neg.u) }
    \cup { << train_neg.u[k], train_neg.v[k] >> : k \in 1..Len(train_neg.u) }

\* C3: every negative example is a pair of distinct nodes without an edge in
\* g; the diagonal of adj_neg is 0 and adj_neg is non-zero exactly at the
\* non-edges off the diagonal.
C3_NegativesAreNonEdges ==
  SplitDone =>
    /\ \A p \in AllNegatives : p[1] # p[2] /\ ~HasEdge(g, p[1], p[2])
    /\ \A i \in NodeIds(g) : adj_neg[i][i] = 0
    /\ \A i, j \in NodeIds(g) : i # j => (adj_neg[i][j] # 0 <=> ~HasEdge(g, i, j))

\* C4: the positive edges are split by a permutation of the edge IDs: E div 10
\* IDs are test positives, the other E - E div 10 are train positives, the two
\* sets are disjoint and together hold every edge ID of g, and the endpoints
\* are those of the edges with these IDs.
C4_PositiveSplit ==
  SplitDone =>
    LET E == NumEdges(g) IN
    /\ Len(eids) = E /\ IdSet(eids) = 0..(E - 1)
    /\ test_size = E \div 10
    /\ Len(test_pos.eid) = E \div 10
    /\ Cardinality(IdSet(test_pos.eid)) = E \div 10
    /\ Len(train_pos.eid) = E - (E \div 10)
    /\ Cardinality(IdSet(train_pos.eid)) = E - (E \div 10)
    /\ train_size = Len(train_pos.eid)
    /\ IdSet(test_pos.eid) \cap IdSet(train_pos.eid) = {}
    /\ IdSet(test_pos.eid) \cup IdSet(train_pos.eid) = 0..(E - 1)
    /\ \A k \in 1..Len(test_pos.eid) :
         test_pos.u[k] = g.u[test_pos.eid[k] + 1] /\ test_pos.v[k] = g.v[test_pos.eid[k] + 1]
    /\ \A k \in 1..Len(train_pos.eid) :
         train_pos.u[k] = g.u[train_pos.eid[k] + 1] /\ train_pos.v[k] = g.v[train_pos.eid[k] + 1]

\* A split with a non-empty test set and a non-empty training set.
C4_Witness ==
  SplitDone /\ Len(test_pos.eid) >= 1 /\ Len(train_pos.eid) >= 9

C6_TrainGraph ==
  lp_pc = "removed" =>
    /\ train_g.num_nodes = g.num_nodes
    /\ Len(train_g.eid) = Len(train_pos.eid)
    /\ IdSet(train_g.eid) = IdSet(train_pos.eid)
    /\ IdSet(train_g.eid) \cap IdSet(test_pos.eid) = {}
    /\ Len(train_g.u) = Len(train_g.eid) /\ Len(train_g.v) = Len(train_g.eid)
    /\ \A k \in 1..Len(train_g.eid) :
         train_g.u[k] = g.u[train_g.eid[k] + 1] /\ train_g.v[k] = g.v[train_g.eid[k] + 1]

\* A training graph from which at least one test edge was removed.
C6_Witness ==
  lp_pc = "removed" /\ test_size >= 1 /\ NumEdges(train_g) < NumEdges(g)

----------------------------------------------------------------------------
\* Claims about the message-passing modules.
MPNodes == 1..mg.num_nodes

\* Number of edges from node a to node b (0-based IDs).
EdgeCount(gr, a, b) == Cardinality({ e \in 1..NumEdges(gr) : gr.u[e] = a /\ gr.v[e] = b })

Zero(d) == [k \in 1..d |-> QInt(0)]

Ran(stage) ==
  LET order == << "start", "sage", "model", "wsage", "wmodel", "udf" >>
  IN \E i, j \in 1..Len(order) : order[i] = stage /\ order[j] = mp_pc /\ i <= j

\* C7: WeightedSAGEConv takes the weighted average of the neighbours: for
\* every node with an incoming edge, h_N times the sum of the weights of its
\* incoming edges is the sum of w[e] * h[u] over these edges.
C7_WeightedAverage ==
  Ran("wsage") =>
    \A n \in MPNodes : \A k \in 1..in_feat :
      InDegree(mg, n - 1) > 0 =>
        LET In == SortedSeq(InEdges(mg, n - 1))
            wsum == QSum([i \in 1..Len(In) |-> w[In[i]][1]])
            whsum == QSum([i \in 1..Len(In) |-> QMul(w[In[i]][1], h[mg.u[In[i]] + 1][k])])
        IN QMul(wsage.h_N[n][k], wsum) = whsum

\* C8: with all edge weights 1, as Model.forward passes them, WeightedSAGEConv
\* computes the neighbour aggregate and the output of SAGEConv with the same
\* linear layer, in both layers of the model.
C8_UnitWeightsEqualSAGEConv ==
  Ran("wmodel") =>
    /\ wmodel.conv1.h_N = sage.h_N
    /\ wmodel.conv1.out = sage.out
    /\ wmodel.conv2.h_N = model.conv2.h_N
    /\ wmodel.out = model.out

\* Both models have run on a graph with an edge whose source has a non-zero
\* feature, so that the aggregate is not all zero.
C8_Witness ==
  /\ Ran("wmodel")
  /\ \E n \in MPNodes : \E k \in 1..in_feat : wmodel.conv1.h_N[n][k] # QInt(0)
  /\ \E n \in MPNodes : InDegree(mg, n - 1) >= 2

\* C9: SAGEConv.forward averages the neighbour features along the edge
\* direction, one term per edge; a node without incoming edge gets 0; the
\* linear layer is applied to [h[v], h_N[v]], of width 2 * in_feat.
C9_SAGEConvMean ==
  Ran("sage") =>
    \A n \in MPNodes :
      /\ Len(sage.h_N[n]) = in_feat
      /\ \A k \in 1..in_feat :
           IF InDegree(mg, n - 1) = 0
             THEN sage.h_N[n][k] = QInt(0)
             ELSE QMul(sage.h_N[n][k], QInt(InDegree(mg, n - 1)))
                    = QSum([a \in 1..mg.num_nodes |->
                              QMul(QInt(EdgeCount(mg, a - 1, n - 1)), h[a][k])])
      /\ Len(sage.h_total[n]) = 2 * in_feat
      /\ linear1.in_features = Len(sage.h_total[n])
      /\ \A k \in 1..in_feat :
           sage.h_total[n][k] = h[n][k] /\ sage.h_total[n][in_feat + k] = sage.h_N[n][k]
      /\ \A o \in 1..linear1.out_features :
           sage.out[n][o] =
             QAdd(QAdd(QSum([i \in 1..in_feat |-> QMul(QInt(linear1.weight[o][i]), h[n][i])]),
                       QSum([i \in 1..in_feat |->
                               QMul(QInt(linear1.weight[o][in_feat + i]), sage.h_N[n][i])])),
                  QInt(linear1.bias[o]))

\* SAGEConv has run on a graph with a node of in-degree 2 whose aggregate is
\* not zero and a node without incoming edge.
C9_Witness ==
  /\ Ran("sage")
  /\ \E n \in MPNodes : InDegree(mg, n - 1) = 2 /\ sage.h_N[n][1] # QInt(0)
  /\ \E n \in MPNodes : InDegree(mg, n - 1) = 0

\* C10: update_all with u_mul_e_udf and mean_udf gives every edge the message
\* and every node the h_N that fn.u_mul_e and fn.mean give, nodes without
\* incoming edge included.
C10_UDFEqualsBuiltin ==
  Ran("udf") =>
    /\ udf.m = wsage.m
    /\ udf.h_N = wsage.h_N

\* The user-defined functions have run on a graph with a node of in-degree 2,
\* a node without incoming edge, a weight other than 1 and a non-zero aggregate.
C10_Witness ==
  /\ Ran("udf")
  /\ \E n \in MPNodes : InDegree(mg, n - 1) = 2 /\ udf.h_N[n][1] # QInt(0)
  /\ \E n \in MPNodes : InDegree(mg, n - 1) = 0
  /\ \E e \in 1..NumEdges(mg) : w[e][1] # QInt(1)

----------------------------------------------------------------------------
\* Claims about the training loops.

\* C11: train of the message-passing notebook is a copy of train of
\* 1_introduction: on the same graph and model both run the same number of
\* epochs, execute the same statements in every epoch and print the same
\* progress lines.
C11_TrainIsCopy ==
  /\ (tr.last_ops # << >> /\ ref.last_ops # << >>) => tr.last_ops = ref.last_ops
  /\ (tr.pc = "done" /\ ref.pc = "done") =>
       /\ tr.epochs = ref.epochs
       /\ tr.lines = ref.lines

\* The epochs of the progress lines printed so far.
PrintedEpochs(r) == { r.lines[k][1] : k \in 1..Len(r.lines) }

NodeLoops == {"part_000", "part_001", "introduction"}
LinkLoops == {"link_predict", "part_003"}
GraphLoops == {"graph_classification", "part_002", "graph_transformer"}

\* C14 (result): a loop that is left normally has run exactly its number of
\* epochs (200 or 100 for node classification, 100 for link prediction, 20 for
\* the graph-level tasks); between two epochs and at the end the node and link
\* loops have printed one line for each epoch e run so far with e % 5 = 0 and
\* no other, so epoch 0 is printed and the last epoch is not.
C14_EpochsAndLines ==
  /\ tr.pc = "done" =>
       /\ tr.loop \in NodeLoops => tr.epochs \in {100, 200}
       /\ tr.loop \in {"part_000", "part_001"} => tr.epochs = 200
       /\ tr.loop = "introduction" => tr.epochs = 100
       /\ tr.loop \in LinkLoops => tr.epochs = 100
       /\ tr.loop \in GraphLoops => tr.epochs = 20
       /\ tr.e = tr.epochs - 1
       /\ tr.loop \in NodeLoops \cup LinkLoops =>
            0 \in PrintedEpochs(tr) /\ tr.e \notin PrintedEpochs(tr)
  /\ (tr.pc \in {"for", "done"} /\ tr.loop \in NodeLoops \cup LinkLoops) =>
       /\ PrintedEpochs(tr) = { e \in 0..(tr.epochs - 1) : e % 5 = 0 }
       /\ Len(tr.lines) = Cardinality(PrintedEpochs(tr))

\* C14 (no early exit): the loop is left normally only from its header, when
\* the range is exhausted; epochs are entered one by one.
C14_NoEarlyExit ==
  [][/\ (tr.pc # "done" /\ tr'.pc = "done") =>
          tr.pc = "for" /\ tr.it = LoopOf(tr.loop).epochs /\ tr.epochs = tr.it
     /\ tr'.epochs \in {tr.epochs, tr.epochs + 1}
     /\ tr.pc = "done" => tr'.pc = "done"]_vars

\* C14: every training loop is a bounded linear loop: it runs exactly its fixed
\* number of epochs with no early exit and then terminates (a library call
\* that raises aborts it), printing a progress line exactly in the epochs e
\* with e % 5 = 0.
C14_BoundedLinearLoop ==
  /\ []C14_EpochsAndLines
  /\ C14_NoEarlyExit
  /\ <>(tr.pc \in {"done", "raised"})

C14_Witness ==
  /\ tr.pc = "done" /\ tr.loop = "part_000"
  /\ tr.epochs = 200 /\ Len(tr.lines) = 40
  /\ tr.best_val_acc > 0

----------------------------------------------------------------------------
\* Claims about graph classification.

\* Number of positions of the sequence s holding x.
Occurrences(s, x) == Cardinality({ k \in 1..Len(s) : s[k] = x })

SeqRange(s) == { s[k] : k \in 1..Len(s) }

LoadersMade == gc.pc \notin {"idle", "start"}

\* C12: with N graphs and num_train = int(0.8 * N), the training loader only
\* yields indices below num_train and the test loader only indices from
\* num_train on; the two index sets are disjoint and cover 0..N-1; when the
\* training loader is exhausted, the epoch has visited every training index
\* exactly once.
C12_SamplersRestrictLoaders ==
  LoadersMade =>
    LET N == gc.num_examples
        training == SeqRange(gc.train_sampler)
        testing == SeqRange(gc.test_sampler)
    IN
    /\ N = Len(gc.dataset)
    /\ gc.num_train = (4 * N) \div 5
    /\ training \cap testing = {}
    /\ training \cup testing = 0..(N - 1)
    /\ training = { i \in 0..(N - 1) : i < gc.num_train }
    /\ gc.pc \in {"ready", "train", "train_batch"} =>
         \A k \in 1..Len(gc.batch) : gc.batch[k] < gc.num_train
    /\ gc.pc \in {"train", "train_batch"} =>
         \A k \in 1..Len(gc.seen) : gc.seen[k] < gc.num_train
    /\ gc.pc = "test_batch" =>
         \A k \in 1..Len(gc.batch) : gc.batch[k] >= gc.num_train
    /\ gc.pc \in {"test", "test_batch", "done"} =>
         \A k \in 1..Len(gc.seen) : gc.seen[k] >= gc.num_train
    /\ (gc.pc = "train" /\ gc.pos = Len(gc.order)) =>
         /\ Len(gc.seen) = gc.num_train
         /\ \A i \in 0..(gc.num_train - 1) : Occurrences(gc.seen, i) = 1

C12_Witness ==
  /\ gc.pc = "train" /\ gc.pos = Len(gc.order)
  /\ gc.epoch_it >= 2
  /\ Len(gc.seen) > BatchSize
  /\ gc.seen # gc.train_sampler
  /\ gc.num_train < gc.num_examples

\* The representations of the nodes of the graph with dataset index i, computed
\* on that graph alone.
AloneRow(i) ==
  LET gi == gc.dataset[i + 1]
      reps == NodeRepresentations(gc.kind, gi, gi.attr)
  IN [op |-> "mean", of |-> MsgBag(1..gi.num_nodes, LAMBDA n : reps[n])]

\* C13: for a batched graph built from k graphs GCN.forward / GIN.forward
\* return exactly k rows, row i the mean of the final representations of the
\* nodes of the i-th graph only; the prediction has one row per label.
C13_ReadoutPerGraph ==
  gc.pred # << >> =>
    /\ Len(gc.pred) = Len(gc.batch)
    /\ Len(gc.pred) = Len(gc.labels)
    /\ Len(gc.pred) = Len(gc.batched_graph.batch_num_nodes)
    /\ \A i \in 1..Len(gc.batch) : gc.pred[i] = AloneRow(gc.batch[i])

C13_Witness ==
  /\ gc.pc = "train" /\ Len(gc.pred) = BatchSize
  /\ \E i, j \in 1..Len(gc.batch) :
       /\ gc.dataset[gc.batch[i] + 1].num_nodes # gc.dataset[gc.batch[j] + 1].num_nodes
       /\ gc.pred[i] # gc.pred[j]
  /\ gc.batched_graph.num_nodes > Len(gc.pred)

====
